---------------------------- MODULE Spec2Model ----------------------------
(***************************************************************************)
(* The dataset layer of lit_ecology_classifier: ImageFolderDataset         *)
(* (data/imagedataset.py) and TarImageDataset (data/tardataset.py).        *)
(*                                                                         *)
(* Strings are sequences of ASCII codes, so that str.replace, str.split,   *)
(* str.lower, str.endswith, os.path.dirname/basename/join and sorted() are *)
(* computed as Python computes them.                                       *)
(***************************************************************************)
EXTENDS Integers, Sequences, FiniteSets, TLC

VARIABLES
    content,   \* what the stores "root" and "data.tar" hold: <<class_name, leaf>> pairs
    tree,      \* the image directory trees on disk: a sequence of entries in walk order
    tars,      \* the tar archives on disk: tar path -> sequence of members
    args,      \* the arguments every construction of the run is given:
               \* [class_map_path, TTA] (constructions with another class_map_path
               \* touch other files)
    scan,      \* store path -> what a constructor's scans of the store find (the
               \* stores do not change, so every construction finds the same)
    fs,        \* the class map files on disk: path -> JSON text
    dirs,      \* the directories created by os.makedirs
    persisted, \* path -> the self.class_map of the construction that wrote the file
    dataset,   \* the dataset instance last constructed, NoDataset before the first
    ret,       \* the outcome of the last call (what it returned or raised)
    calls,     \* worker -> the __getitem__ call it is in, step by step
    handles    \* the open archive handles: handle -> the member it is positioned at

vars == <<content, tree, tars, args, scan, fs, dirs, persisted, dataset, ret, calls, handles>>

-----------------------------------------------------------------------------
(* String literals.                                                        *)

\* "cat"  (class directory names)
s_cat == <<99, 97, 116>>

\* "dog"
s_dog == <<100, 111, 103>>

\* "ca"
s_ca == <<99, 97>>

\* "fish"
s_fish == <<102, 105, 115, 104>>

\* "deep"
s_deep == <<100, 101, 101, 112>>

\* "link"
s_link == <<108, 105, 110, 107>>

\* "rest"  (the catch-all key of the priority map)
s_rest == <<114, 101, 115, 116>>

\* "a.jpg"  (leaf names)
s_a_jpg == <<97, 46, 106, 112, 103>>

\* "b.PNG"
s_b_PNG == <<98, 46, 80, 78, 71>>

\* "c.jpeg"
s_c_jpeg == <<99, 46, 106, 112, 101, 103>>

\* "n.txt"
s_n_txt == <<110, 46, 116, 120, 116>>

\* "r.png"
s_r_png == <<114, 46, 112, 110, 103>>

\* "l.png"
s_l_png == <<108, 46, 112, 110, 103>>

\* "jpg"  (the extensions of _load_image_infos)
s_jpg == <<106, 112, 103>>

\* "jpeg"
s_jpeg == <<106, 112, 101, 103>>

\* "png"
s_png == <<112, 110, 103>>

\* "root"  (store roots)
s_root == <<114, 111, 111, 116>>

\* "alt"
s_alt == <<97, 108, 116>>

\* "data"
s_data == <<100, 97, 116, 97>>

\* "top"
s_top == <<116, 111, 112>>

\* "class_map.json"  (the file-name token of __init__ and its priority replacement)
s_class_map_json == <<99, 108, 97, 115, 115, 95, 109, 97, 112, 46, 106, 115, 111, 110>>

\* "class_map_priority.json"
s_class_map_priority_json == <<99, 108, 97, 115, 115, 95, 109, 97, 112, 95, 112, 114, 105, 111, 114, 105, 116, 121, 46, 106, 115, 111, 110>>

\* "data.tar"  (archive paths)
s_data_tar == <<100, 97, 116, 97, 46, 116, 97, 114>>

\* "odd.tar"
s_odd_tar == <<111, 100, 100, 46, 116, 97, 114>>

\* "out/class_map.json"  (base class map paths)
s_out_class_map_json == <<111, 117, 116, 47, 99, 108, 97, 115, 115, 95, 109, 97, 112, 46, 106, 115, 111, 110>>

\* "out/classes.json"
s_out_classes_json == <<111, 117, 116, 47, 99, 108, 97, 115, 115, 101, 115, 46, 106, 115, 111, 110>>

\* The code point of "/" (posixpath's separator, and the one tardataset.py splits on).
SLASH == 47

-----------------------------------------------------------------------------
(* Python's string operations.                                             *)

\* str.lower() on ASCII: "A".."Z" (65..90) become "a".."z".
Lower(s) ==
    [i \in 1..Len(s) |-> IF s[i] >= 65 /\ s[i] <= 90 THEN s[i] + 32 ELSE s[i]]

\* str.endswith(suf)
EndsWith(s, suf) ==
    /\ Len(s) >= Len(suf)
    /\ SubSeq(s, Len(s) - Len(suf) + 1, Len(s)) = suf

\* s has old at position i (1-based)
MatchAt(s, old, i) ==
    /\ i + Len(old) - 1 <= Len(s)
    /\ SubSeq(s, i, i + Len(old) - 1) = old

\* str.replace(old, new) for a non-empty old: every non-overlapping occurrence,
\* scanning from the left.
RECURSIVE ReplaceFrom(_, _, _, _)
ReplaceFrom(s, old, new, i) ==
    IF i > Len(s) THEN <<>>
    ELSE IF MatchAt(s, old, i) THEN new \o ReplaceFrom(s, old, new, i + Len(old))
    ELSE <<s[i]>> \o ReplaceFrom(s, old, new, i + 1)

Replace(s, old, new) == ReplaceFrom(s, old, new, 1)

\* str.split(sep) for a one-character sep: the segments between the separators
\* (an empty string splits into one empty segment).
RECURSIVE SplitFrom(_, _, _, _)
SplitFrom(s, sep, i, cur) ==
    IF i > Len(s) THEN <<cur>>
    ELSE IF s[i] = sep THEN <<cur>> \o SplitFrom(s, sep, i + 1, <<>>)
    ELSE SplitFrom(s, sep, i + 1, Append(cur, s[i]))

Split(s, sep) == SplitFrom(s, sep, 1, <<>>)

\* Python's < on str: by code point, a proper prefix first.
RECURSIVE LexLess(_, _)
LexLess(a, b) ==
    IF b = <<>> THEN FALSE
    ELSE IF a = <<>> THEN TRUE
    ELSE IF a[1] # b[1] THEN a[1] < b[1]
    ELSE LexLess(Tail(a), Tail(b))

\* str.rfind("/") + 1: the length of the part up to and including the last "/".
RECURSIVE HeadLen(_, _)
HeadLen(p, i) ==
    IF i = 0 THEN 0
    ELSE IF p[i] = SLASH THEN i
    ELSE HeadLen(p, i - 1)

\* str.rstrip("/")
RECURSIVE RStripSlash(_)
RStripSlash(s) ==
    IF s # <<>> /\ s[Len(s)] = SLASH THEN RStripSlash(SubSeq(s, 1, Len(s) - 1)) ELSE s

\* os.path.dirname (posixpath): the head up to the last "/", trailing slashes
\* stripped unless the head is all slashes.
Dirname(p) ==
    LET head == SubSeq(p, 1, HeadLen(p, Len(p)))
    IN  IF RStripSlash(head) = <<>> THEN head ELSE RStripSlash(head)

\* os.path.basename (posixpath): what follows the last "/".
Basename(p) == SubSeq(p, HeadLen(p, Len(p)) + 1, Len(p))

\* os.path.join(a, b) (posixpath) of two components.
Join(a, b) ==
    IF b # <<>> /\ b[1] = SLASH THEN b
    ELSE IF a = <<>> \/ a[Len(a)] = SLASH THEN a \o b
    ELSE a \o <<SLASH>> \o b

\* sorted(names): ascending in Python's string order.
RECURSIVE Sorted(_)
Sorted(S) ==
    IF S = {} THEN <<>>
    ELSE LET m == CHOOSE x \in S : \A y \in S : y = x \/ LexLess(x, y)
         IN  <<m>> \o Sorted(S \ {m})

\* The elements of a sequence.
Range(s) == {s[i] : i \in 1..Len(s)}

-----------------------------------------------------------------------------
(* Python's dict (insertion-ordered): a sequence of <<key, value>> pairs   *)
(* with distinct keys.                                                     *)

DictKeys(m) == {m[i][1] : i \in 1..Len(m)}

\* dict.get(k, default)
DictGet(m, k, default) ==
    IF k \in DictKeys(m)
    THEN LET i == CHOOSE j \in 1..Len(m) : m[j][1] = k IN m[i][2]
    ELSE default

\* m[k] = v: an existing key keeps its place, a new key goes last.
DictSet(m, k, v) ==
    IF k \in DictKeys(m)
    THEN [i \in 1..Len(m) |-> IF m[i][1] = k THEN <<k, v>> ELSE m[i]]
    ELSE Append(m, <<k, v>>)

\* json.dump(class_map, json_file, indent=4): the members of one JSON object,
\* "name": number, in the dict's order.
JsonDump(m) ==
    [i \in 1..Len(m) |-> [name |-> m[i][1], number |-> m[i][2]]]

\* json.load(json_file): the object's members inserted into a dict one by one.
RECURSIVE JsonLoadFrom(_, _, _)
JsonLoadFrom(text, i, acc) ==
    IF i > Len(text) THEN acc
    ELSE JsonLoadFrom(text, i + 1, DictSet(acc, text[i].name, text[i].number))

JsonLoad(text) == JsonLoadFrom(text, 1, <<>>)

-----------------------------------------------------------------------------
(* The backing stores. An entry of a directory tree or a member of an      *)
(* archive is [name, kind], kind one of "dir", "file", "sym".              *)

Entry(name, kind) == [name |-> name, kind |-> kind]

\* The conventional layout <top>/<class_name>/<image file> of a content, a
\* sequence of <<class_name, leaf>> pairs: the top directory, then each class
\* directory (once) followed by its files.
RECURSIVE LayoutFrom(_, _, _)
LayoutFrom(top, pairs, i) ==
    IF i > Len(pairs) THEN <<>>
    ELSE LET cls  == Join(top, pairs[i][1])
             seen == \E j \in 1..(i - 1) : pairs[j][1] = pairs[i][1]
         IN  (IF seen THEN <<>> ELSE <<Entry(cls, "dir")>>)
             \o <<Entry(Join(cls, pairs[i][2]), "file")>>
             \o LayoutFrom(top, pairs, i + 1)

Layout(top, pairs) == <<Entry(top, "dir")>> \o LayoutFrom(top, pairs, 1)

\* The most images the stores "root" and "data.tar" hold.
MaxImages == 3

\* The images the stores "root" and "data.tar" are filled from, in the order
\* they were added: the class directories are not met in sorted order, one class
\* name is a prefix of another, and the last image joins an existing class.
Catalog ==
    << <<s_dog, s_b_PNG>>, <<s_cat, s_a_jpg>>, <<s_ca, s_c_jpeg>>, <<s_cat, s_b_PNG>>,
       <<s_fish, s_a_jpg>> >>

\* The contents the stores "root" and "data.tar" are laid out from.
Contents ==
    {SubSeq(Catalog, 1, n) : n \in {k \in 1..MaxImages : k <= Len(Catalog)}}

\* A tree off the convention: a nested class directory, an empty directory,
\* a file that is no image and an image directly under the root.
AltTree ==
    << Entry(s_alt, "dir"),
       Entry(Join(s_alt, s_r_png), "file"),
       Entry(Join(s_alt, s_fish), "dir"),
       Entry(Join(Join(s_alt, s_fish), s_n_txt), "file"),
       Entry(Join(Join(s_alt, s_fish), s_deep), "dir"),
       Entry(Join(Join(Join(s_alt, s_fish), s_deep), s_c_jpeg), "file"),
       Entry(Join(s_alt, s_ca), "dir") >>

\* An archive off the convention: a file that is no image under the top
\* directory, a symbolic link with an image name and an image at the root.
OddTar ==
    << Entry(s_top, "dir"),
       Entry(Join(s_top, s_n_txt), "file"),
       Entry(Join(s_top, s_fish), "dir"),
       Entry(Join(Join(s_top, s_fish), s_c_jpeg), "file"),
       Entry(Join(Join(s_top, s_link), s_l_png), "sym"),
       Entry(s_r_png, "file") >>

\* The image_folder_path and tar_path arguments the constructors are given.
FolderPaths == {s_root, s_alt}
TarPaths == {s_data_tar, s_odd_tar}

\* name lies below directory top
IsUnder(name, top) ==
    /\ Len(name) > Len(top) + 1
    /\ SubSeq(name, 1, Len(top) + 1) = top \o <<SLASH>>

\* The names, in order, of the entries of kind k directly in directory d.
RECURSIVE ChildrenFrom(_, _, _, _)
ChildrenFrom(t, d, k, i) ==
    IF i > Len(t) THEN <<>>
    ELSE (IF t[i].kind = k /\ t[i].name # d /\ Dirname(t[i].name) = d
          THEN <<Basename(t[i].name)>> ELSE <<>>)
         \o ChildrenFrom(t, d, k, i + 1)

\* os.walk(top): one (root, dirs, files) triple per directory, top first.
RECURSIVE WalkFrom(_, _, _)
WalkFrom(t, top, i) ==
    IF i > Len(t) THEN <<>>
    ELSE (IF t[i].kind = "dir" /\ (t[i].name = top \/ IsUnder(t[i].name, top))
          THEN << [root  |-> t[i].name,
                   dirs  |-> ChildrenFrom(t, t[i].name, "dir", 1),
                   files |-> ChildrenFrom(t, t[i].name, "file", 1)] >>
          ELSE <<>>)
         \o WalkFrom(t, top, i + 1)

Walk(t, top) == WalkFrom(t, top, 1)

-----------------------------------------------------------------------------
(* Class map resolution, shared by the two constructors.                   *)

\* __init__: with priority classes the class map path is rewritten,
\* class_map_path.replace("class_map.json", "class_map_priority.json").
EffectivePath(class_map_path, priority_classes) ==
    IF priority_classes # <<>>
    THEN Replace(class_map_path, s_class_map_json, s_class_map_priority_json)
    ELSE class_map_path

\* EnumerateClasses as enumerate(sorted_class_names, 1) would give it.
EnumerateClassesFromOne(names) ==
    LET sorted_class_names == Sorted(names)
    IN  [i \in 1..Len(sorted_class_names) |-> <<sorted_class_names[i], i>>]

\* {class_name: idx for idx, class_name in enumerate(sorted_class_names)}
EnumerateClasses(names) ==
    LET sorted_class_names == Sorted(names)
    IN  [i \in 1..Len(sorted_class_names) |-> <<sorted_class_names[i], i - 1>>]

\* define_priority_classes(priority_classes) of helpers/helpers.py: each priority
\* class gets a label of its own, 1, 2, ... in the order given, and everything
\* else is the "rest" class, labelled 0.
RECURSIVE PriorityFrom(_, _, _)
PriorityFrom(priority_classes, i, acc) ==
    IF i > Len(priority_classes) THEN acc
    ELSE PriorityFrom(priority_classes, i + 1, DictSet(acc, priority_classes[i], i))

DefinePriorityClasses(priority_classes) ==
    DictSet(PriorityFrom(priority_classes, 1, <<>>), s_rest, 0)

\* PriorityCheckFails without the check.
PriorityCheckSkipped(class_map, priority_classes) == FALSE

\* The check of _create_class_map / _extract_class_map before the map is
\* replaced: KeyError on a priority class that is no key of the class map.
PriorityCheckFails(class_map, priority_classes) ==
    \E i \in 1..Len(priority_classes) : priority_classes[i] \notin DictKeys(class_map)

\* DeriveClassMap without the replacement by define_priority_classes: the
\* enumerated map is kept once the priority classes are found in it.
DeriveClassMapKeepEnumerated(names, priority_classes) ==
    LET enumerated == EnumerateClasses(names)
    IN  IF priority_classes = <<>>
        THEN [err |-> "none", class_map |-> enumerated]
        ELSE IF PriorityCheckFails(enumerated, priority_classes)
        THEN [err |-> "KeyError", class_map |-> enumerated]
        ELSE [err |-> "none", class_map |-> enumerated]

\* The class map of _create_class_map / _extract_class_map from the class names
\* found: [err, class_map], class_map being self.class_map when it ends.
DeriveClassMap(names, priority_classes) ==
    LET enumerated == EnumerateClasses(names)
    IN  IF priority_classes = <<>>
        THEN [err |-> "none", class_map |-> enumerated]
        ELSE IF PriorityCheckFails(enumerated, priority_classes)
        THEN [err |-> "KeyError", class_map |-> enumerated]
        ELSE [err |-> "none", class_map |-> DefinePriorityClasses(priority_classes)]

\* The directories os.makedirs(d, exist_ok=True) leaves existing: d and the
\* directories above it.
RECURSIVE MakeDirs(_)
MakeDirs(d) ==
    IF d = <<>> \/ RStripSlash(d) = <<>> THEN {}
    ELSE {d} \cup (IF Dirname(d) = d THEN {} ELSE MakeDirs(Dirname(d)))

\* The end of _create_class_map / _extract_class_map: os.makedirs of the map's
\* directory (FileNotFoundError for the empty directory name of a bare file
\* name) and json.dump into the file. [err, fs, dirs].
PersistClassMap(files, made, class_map_path, class_map) ==
    IF Dirname(class_map_path) = <<>>
    THEN [err |-> "FileNotFoundError", fs |-> files, dirs |-> made]
    ELSE [err  |-> "none",
          fs   |-> [q \in DOMAIN files \cup {class_map_path} |->
                       IF q = class_map_path THEN JsonDump(class_map) ELSE files[q]],
          dirs |-> made \cup MakeDirs(Dirname(class_map_path))]

\* ResolveClassMap deriving afresh on every train-mode construction, whether or
\* not the file exists.
ResolveClassMapRederive(files, made, names, class_map_path, priority_classes, train) ==
    IF class_map_path \in DOMAIN files /\ ~train
    THEN [err |-> "none", class_map |-> JsonLoad(files[class_map_path]),
          derived |-> FALSE, fs |-> files, dirs |-> made]
    ELSE IF ~train
    THEN [err |-> "FileNotFoundError", class_map |-> <<>>,
          derived |-> FALSE, fs |-> files, dirs |-> made]
    ELSE LET d == DeriveClassMap(names, priority_classes)
             w == PersistClassMap(files, made, class_map_path, d.class_map)
         IN  IF d.err # "none"
             THEN [err |-> d.err, class_map |-> d.class_map,
                   derived |-> TRUE, fs |-> files, dirs |-> made]
             ELSE [err |-> w.err, class_map |-> d.class_map,
                   derived |-> TRUE, fs |-> w.fs, dirs |-> w.dirs]

\* ResolveClassMap without the "if not train: raise": a missing map is derived
\* and persisted in evaluation mode as well.
ResolveClassMapAnyMode(files, made, names, class_map_path, priority_classes, train) ==
    IF class_map_path \in DOMAIN files
    THEN [err |-> "none", class_map |-> JsonLoad(files[class_map_path]),
          derived |-> FALSE, fs |-> files, dirs |-> made]
    ELSE LET d == DeriveClassMap(names, priority_classes)
             w == PersistClassMap(files, made, class_map_path, d.class_map)
         IN  IF d.err # "none"
             THEN [err |-> d.err, class_map |-> d.class_map,
                   derived |-> TRUE, fs |-> files, dirs |-> made]
             ELSE [err |-> w.err, class_map |-> d.class_map,
                   derived |-> TRUE, fs |-> w.fs, dirs |-> w.dirs]

\* __init__ up to the class map: load the file at the effective path when it
\* exists, fail without one when not training, derive and persist one otherwise.
\* [err, class_map, derived, fs, dirs].
ResolveClassMap(files, made, names, class_map_path, priority_classes, train) ==
    IF class_map_path \in DOMAIN files
    THEN [err |-> "none", class_map |-> JsonLoad(files[class_map_path]),
          derived |-> FALSE, fs |-> files, dirs |-> made]
    ELSE IF ~train
    THEN [err |-> "FileNotFoundError", class_map |-> <<>>,
          derived |-> FALSE, fs |-> files, dirs |-> made]
    ELSE LET d == DeriveClassMap(names, priority_classes)
             w == PersistClassMap(files, made, class_map_path, d.class_map)
         IN  IF d.err # "none"
             THEN [err |-> d.err, class_map |-> d.class_map,
                   derived |-> TRUE, fs |-> files, dirs |-> made]
             ELSE [err |-> w.err, class_map |-> d.class_map,
                   derived |-> TRUE, fs |-> w.fs, dirs |-> w.dirs]

-----------------------------------------------------------------------------
(* What differs between the two backends.                                  *)

ImageSuffixes == {s_jpg, s_jpeg, s_png}

\* file.lower().endswith(("jpg", "jpeg", "png"))
IsImageName(name) == \E suf \in ImageSuffixes : EndsWith(Lower(name), suf)

RECURSIVE Flatten(_)
Flatten(ss) == IF ss = <<>> THEN <<>> ELSE Head(ss) \o Flatten(Tail(ss))

RECURSIVE Filter(_, _)
Filter(s, keep) ==
    IF s = <<>> THEN <<>>
    ELSE (IF Head(s) \in keep THEN <<Head(s)>> ELSE <<>>) \o Filter(Tail(s), keep)

\* ImageFolderDataset._create_class_map: every directory name os.walk meets.
FolderClassNames(t, folder_path) ==
    LET w == Walk(t, folder_path)
    IN  UNION {Range(w[i].dirs) : i \in 1..Len(w)}

\* TarImageDataset._extract_class_map: the parent directory's name of every
\* member that is no directory.
TarClassNames(members) ==
    {Basename(Dirname(members[i].name)) :
        i \in {j \in 1..Len(members) : members[j].kind # "dir"}}

\* ImageFolderDataset._load_image_infos: the joined path of every image file.
FolderLoadImageInfos(t, folder_path) ==
    LET w == Walk(t, folder_path)
        images(i) == Filter(w[i].files, {f \in Range(w[i].files) : IsImageName(f)})
    IN  Flatten([i \in 1..Len(w) |->
                    [k \in 1..Len(images(i)) |-> Join(w[i].root, images(i)[k])]])

\* TarImageDataset._load_image_infos: every regular file with an image name.
TarLoadImageInfos(members) ==
    Filter(members, {m \in Range(members) : m.kind = "file" /\ IsImageName(m.name)})

\* FolderGetLabel with self.class_map[label] in place of .get(label, 0).
FolderGetLabelStrict(class_map, filename) ==
    LET parts == Split(filename, SLASH)
    IN  IF Len(parts) < 2 THEN [err |-> "IndexError", label |-> -1]
        ELSE IF parts[Len(parts) - 1] \notin DictKeys(class_map)
        THEN [err |-> "KeyError", label |-> -1]
        ELSE [err |-> "none", label |-> DictGet(class_map, parts[Len(parts) - 1], 0)]

\* ImageFolderDataset.get_label_from_filename: filename.split(os.sep)[-2], looked
\* up with default 0. [err, label].
FolderGetLabel(class_map, filename) ==
    LET parts == Split(filename, SLASH)
    IN  IF Len(parts) < 2 THEN [err |-> "IndexError", label |-> -1]
        ELSE [err |-> "none", label |-> DictGet(class_map, parts[Len(parts) - 1], 0)]

\* TarGetLabel with the first path segment, filename.split("/")[0].
TarGetLabelFirstSegment(class_map, filename) ==
    LET parts == Split(filename, SLASH)
    IN  [err |-> "none", label |-> DictGet(class_map, parts[1], 0)]

\* TarImageDataset.get_label_from_filename: filename.split("/")[1], looked up
\* with default 0. [err, label].
TarGetLabel(class_map, filename) ==
    LET parts == Split(filename, SLASH)
    IN  IF Len(parts) < 2 THEN [err |-> "IndexError", label |-> -1]
        ELSE [err |-> "none", label |-> DictGet(class_map, parts[2], 0)]

-----------------------------------------------------------------------------
(* _define_transforms and __getitem__.                                     *)

\* An image is [source, ops]: the record it was decoded from and the transforms
\* applied to it, in order. Compose applies its transforms one after the other.
\* A dict keyed by rotation is a function on the keys.
Compose(transforms, image) == [image EXCEPT !.ops = @ \o transforms]

\* self.train_transforms
TrainTransforms ==
    <<"ToImage", "RandomHorizontalFlip", "Resize224", "ToDtype", "AugMix", "Normalize">>

\* self.val_transforms
ValTransforms == <<"ToImage", "Resize224", "ToDtype", "Normalize">>

\* self.rotations, which _define_transforms sets only with TTA.
Rotations ==
    [rot \in {"0", "90", "180", "270"} |->
        CASE rot = "0" -> <<"RandomRotation0">>
          [] rot = "90" -> <<"RandomRotation90">>
          [] rot = "180" -> <<"RandomRotation180">>
          [] rot = "270" -> <<"RandomRotation270">>]

\* Image.open(...).convert("RGB") of a record
OpenImage(image_info) == [source |-> image_info, ops |-> <<"ConvertRGB">>]

\* TransformImage testing self.train before self.TTA.
TransformImageTrainFirst(self, image) ==
    IF self.train THEN Compose(TrainTransforms, image)
    ELSE IF self.TTA
    THEN [rot \in DOMAIN self.rotations |->
            Compose(ValTransforms, Compose(self.rotations[rot], image))]
    ELSE Compose(ValTransforms, image)

\* The branch of __getitem__ on self.TTA and self.train.
TransformImage(self, image) ==
    IF self.TTA
    THEN [rot \in DOMAIN self.rotations |->
            Compose(ValTransforms, Compose(self.rotations[rot], image))]
    ELSE IF self.train THEN Compose(TrainTransforms, image)
    ELSE Compose(ValTransforms, image)

\* get_label_from_filename of the dataset's backend, on the record's path.
GetLabelFromFilename(self, image_info) ==
    IF self.backend = "folder"
    THEN FolderGetLabel(self.class_map, image_info)
    ELSE TarGetLabel(self.class_map, image_info.name)

\* __getitem__(idx), idx counted from 0: what it returns, or the error it raises.
GetItemResult(self, idx) ==
    LET image_info == self.image_infos[idx + 1]
        image      == TransformImage(self, OpenImage(image_info))
        l          == GetLabelFromFilename(self, image_info)
    IN  [image_info |-> image_info, err |-> l.err,
         image |-> IF l.err = "none" THEN image ELSE <<>>,
         label |-> l.label]

\* __len__
Length(self) == Len(self.image_infos)

-----------------------------------------------------------------------------------------------------------------------------------------------------
(* The state machine.                                                      *)

\* The class_map_path and priority_classes arguments the constructors are given.
BasePaths == {s_out_class_map_json, s_out_classes_json, s_class_map_json}
PriorityConfigs == {<<>>, <<s_dog, s_ca>>}

NoDataset == [backend |-> "none"]

\* The stores on disk, the run's arguments and what a scan of each store finds.
InitStores ==
    /\ content \in Contents
    /\ tree = Layout(s_root, content) \o AltTree
    /\ tars = [p \in TarPaths |->
                 IF p = s_data_tar THEN Layout(s_data, content) ELSE OddTar]
    /\ args \in [class_map_path : BasePaths, TTA : BOOLEAN]
    /\ scan = [p \in FolderPaths \cup TarPaths |->
                 IF p \in FolderPaths
                 THEN [names       |-> FolderClassNames(tree, p),
                       image_infos |-> FolderLoadImageInfos(tree, p)]
                 ELSE [names       |-> TarClassNames(tars[p]),
                       image_infos |-> TarLoadImageInfos(tars[p])]]

Init ==
    /\ InitStores
    /\ fs = <<>>
    /\ dirs = {}
    /\ persisted = <<>>
    /\ dataset = NoDataset
    /\ ret = [op |-> "none"]
    /\ calls = <<>>
    /\ handles = <<>>

\* The fields __init__ sets on self, r being what ResolveClassMap gave it.
Instance(backend, src, names, image_infos, class_map_path, priority_classes, train, TTA, r) ==
    [backend          |-> backend,
     src              |-> src,
     base_path        |-> class_map_path,
     class_map_path   |-> EffectivePath(class_map_path, priority_classes),
     priority_classes |-> priority_classes,
     train            |-> train,
     TTA              |-> TTA,
     class_map        |-> r.class_map,
     derived          |-> r.derived,
     names            |-> names,
     rotations        |-> IF TTA THEN Rotations ELSE <<>>,
     image_infos      |-> image_infos,
     enumerated       |-> image_infos]

\* __init__ of either class, given what its backend finds in the store: names for
\* the class map, image_infos for the records. A construction that raises leaves
\* no instance: the name the caller would bind stays unbound.
Construct(backend, src, names, image_infos, class_map_path, priority_classes, train, TTA) ==
    LET path == EffectivePath(class_map_path, priority_classes)
        r    == ResolveClassMap(fs, dirs, names, path, priority_classes, train)
        self == Instance(backend, src, names, image_infos, class_map_path,
                         priority_classes, train, TTA, r)
    IN  /\ fs' = r.fs
        /\ dirs' = r.dirs
        /\ persisted' = IF r.derived /\ r.err = "none"
                        THEN [q \in DOMAIN persisted \cup {path} |->
                                 IF q = path THEN r.class_map ELSE persisted[q]]
                        ELSE persisted
        /\ dataset' = IF r.err = "none" THEN self ELSE NoDataset
        /\ ret' = [op |-> "init", backend |-> backend, src |-> src,
                   base_path |-> class_map_path, class_map_path |-> path,
                   priority_classes |-> priority_classes, train |-> train,
                   existed |-> path \in DOMAIN fs, names |-> names,
                   class_map |-> r.class_map, err |-> r.err]
        /\ UNCHANGED <<content, tree, tars, args, scan, calls, handles>>

\* ImageFolderDataset(image_folder_path, class_map_path, priority_classes, train, TTA)
ConstructFolder ==
    \E image_folder_path \in FolderPaths,
       priority_classes \in PriorityConfigs, train \in BOOLEAN :
        Construct("folder", image_folder_path,
                  scan[image_folder_path].names, scan[image_folder_path].image_infos,
                  args.class_map_path, priority_classes, train, args.TTA)

\* TarImageDataset(tar_path, class_map_path, priority_classes, train, TTA)
ConstructTar ==
    \E tar_path \in TarPaths,
       priority_classes \in PriorityConfigs, train \in BOOLEAN :
        Construct("tar", tar_path,
                  scan[tar_path].names, scan[tar_path].image_infos,
                  args.class_map_path, priority_classes, train, args.TTA)

\* dataset[idx]
GetItem ==
    /\ dataset # NoDataset
    /\ \E idx \in 0..(Length(dataset) - 1) :
          ret' = [op |-> "getitem", idx |-> idx] @@ GetItemResult(dataset, idx)
    /\ UNCHANGED <<content, tree, tars, args, scan, fs, dirs, persisted, dataset, calls, handles>>

\* The orders random.shuffle can leave a list of n elements in.
ShuffleOrders(n) ==
    {f \in [1..n -> 1..n] : \A i, j \in 1..n : f[i] = f[j] => i = j}

\* ShuffleInfos drawing every position independently (random.choices).
ShuffleInfosWithRepeats(image_infos, f) ==
    [i \in 1..Len(image_infos) |-> image_infos[((f[i] * f[1]) % Len(image_infos)) + 1]]

\* random.shuffle(self.image_infos)
ShuffleInfos(image_infos, f) == [i \in 1..Len(image_infos) |-> image_infos[f[i]]]

\* dataset.shuffle()
Shuffle ==
    /\ dataset # NoDataset
    /\ \E f \in ShuffleOrders(Length(dataset)) :
          dataset' = [dataset EXCEPT !.image_infos = ShuffleInfos(@, f)]
    /\ ret' = [op |-> "shuffle"]
    /\ UNCHANGED <<content, tree, tars, args, scan, fs, dirs, persisted, calls, handles>>

Next == ConstructFolder \/ ConstructTar \/ GetItem \/ Shuffle

Spec == Init /\ [][Next]_vars

-----------------------------------------------------------------------------
(* __getitem__ statement by statement, called by several workers at once.   *)

\* How many DataLoader workers call __getitem__ on the dataset at once.
NumWorkers == 2

Workers == 1..NumWorkers

\* A worker that is in no call.
Idle == [pc |-> "idle"]

\* Where a handle that has extracted no member yet is positioned.
NoMember == Entry(<<>>, "none")

\* A dataset after a train-mode construction on a disk without class map files,
\* and workers that have called nothing yet.
Constructed(workers) ==
    /\ InitStores
    /\ \E src \in FolderPaths \cup TarPaths, priority_classes \in PriorityConfigs :
          LET backend == IF src \in FolderPaths THEN "folder" ELSE "tar"
              path    == EffectivePath(args.class_map_path, priority_classes)
              r       == ResolveClassMap(<<>>, {}, scan[src].names, path,
                                         priority_classes, TRUE)
          IN  /\ r.err = "none"
              /\ fs = r.fs
              /\ dirs = r.dirs
              /\ persisted = [q \in {path} |-> r.class_map]
              /\ dataset = Instance(backend, src, scan[src].names,
                                    scan[src].image_infos, args.class_map_path,
                                    priority_classes, TRUE, args.TTA, r)
              /\ ret = [op |-> "init", backend |-> backend, src |-> src,
                        base_path |-> args.class_map_path, class_map_path |-> path,
                        priority_classes |-> priority_classes, train |-> TRUE,
                        existed |-> FALSE, names |-> scan[src].names,
                        class_map |-> r.class_map, err |-> r.err]
    /\ calls = [w \in workers |-> Idle]
    /\ handles = <<>>

\* One handle for every call (self.tar opened once and kept on the instance).
OpenedHandleShared(w) == 0

\* The handle `with tarfile.open(self.tar_path, "r") as tar` binds in the call of
\* worker w: a handle of that call alone.
OpenedHandle(w) == w

\* The label taken from a second read of self.image_infos[idx].
LabelRecordRefetched(self, call) == self.image_infos[call.idx + 1]

\* The record get_label_from_filename is given: the local image_info.
LabelRecord(self, call) == call.image_info

\* A worker enters dataset[idx].
CallBegin ==
    /\ dataset # NoDataset
    /\ \E w \in DOMAIN calls, idx \in 0..(Length(dataset) - 1) :
          /\ calls[w].pc = "idle"
          /\ calls' = [calls EXCEPT ![w] =
                          [pc  |-> IF dataset.backend = "tar" THEN "open" ELSE "fetch",
                           idx |-> idx, tar |-> -1, image_info |-> <<>>,
                           image |-> <<>>, label |-> -1, err |-> "none",
                           current |-> <<>>]]
    /\ UNCHANGED <<content, tree, tars, args, scan, fs, dirs, persisted, dataset, ret, handles>>

\* with tarfile.open(self.tar_path, "r") as tar:
CallOpenTar ==
    \E w \in DOMAIN calls :
        /\ calls[w].pc = "open"
        /\ LET tar == OpenedHandle(w)
           IN  /\ handles' = [h \in DOMAIN handles \cup {tar} |->
                                 IF h = tar THEN NoMember ELSE handles[h]]
               /\ calls' = [calls EXCEPT ![w].pc = "fetch", ![w].tar = tar]
        /\ UNCHANGED <<content, tree, tars, args, scan, fs, dirs, persisted, dataset, ret>>

\* image_info = self.image_infos[idx]
CallFetch ==
    \E w \in DOMAIN calls :
        /\ calls[w].pc = "fetch"
        /\ calls' = [calls EXCEPT
                        ![w].pc = IF dataset.backend = "tar" THEN "extract" ELSE "decode",
                        ![w].image_info = dataset.image_infos[calls[w].idx + 1]]
        /\ UNCHANGED <<content, tree, tars, args, scan, fs, dirs, persisted, dataset, ret, handles>>

\* image_file = tar.extractfile(image_info): the handle moves to the member.
CallExtract ==
    \E w \in DOMAIN calls :
        /\ calls[w].pc = "extract"
        /\ handles' = [h \in DOMAIN handles |->
                          IF h = calls[w].tar THEN calls[w].image_info ELSE handles[h]]
        /\ calls' = [calls EXCEPT ![w].pc = "decode"]
        /\ UNCHANGED <<content, tree, tars, args, scan, fs, dirs, persisted, dataset, ret>>

\* Image.open(...).convert("RGB") and the transforms: of the file at the path
\* (folder), of the bytes read where the handle is positioned (archive). Reading
\* through a closed handle raises.
CallDecode ==
    \E w \in DOMAIN calls :
        /\ calls[w].pc = "decode"
        /\ calls' =
             IF dataset.backend = "folder"
             THEN [calls EXCEPT ![w].pc = "label",
                     ![w].image = TransformImage(dataset, OpenImage(calls[w].image_info))]
             ELSE IF calls[w].tar \in DOMAIN handles
             THEN [calls EXCEPT ![w].pc = "label",
                     ![w].image = TransformImage(dataset, OpenImage(handles[calls[w].tar]))]
             ELSE [calls EXCEPT ![w].pc = "done", ![w].err = "ValueError"]
        /\ UNCHANGED <<content, tree, tars, args, scan, fs, dirs, persisted, dataset, ret, handles>>

\* label = self.get_label_from_filename(...); return image, label. Leaving the
\* with block, by return or by exception, closes the archive handle. current is
\* the record at idx at this moment, which the call does not read.
CallLabel ==
    \E w \in DOMAIN calls :
        /\ calls[w].pc = "label"
        /\ LET l == GetLabelFromFilename(dataset, LabelRecord(dataset, calls[w]))
           IN  calls' = [calls EXCEPT
                            ![w].pc = "done",
                            ![w].err = l.err,
                            ![w].label = l.label,
                            ![w].image = IF l.err = "none" THEN @ ELSE <<>>,
                            ![w].current = dataset.image_infos[calls[w].idx + 1]]
        /\ handles' = [h \in DOMAIN handles \ {calls[w].tar} |-> handles[h]]
        /\ UNCHANGED <<content, tree, tars, args, scan, fs, dirs, persisted, dataset, ret>>

\* Workers calling __getitem__ at once, nothing calling shuffle().
InitWorkers == Constructed(Workers)

NextWorkers ==
    CallBegin \/ CallOpenTar \/ CallFetch \/ CallExtract \/ CallDecode \/ CallLabel

SpecWorkers == InitWorkers /\ [][NextWorkers]_vars

\* One __getitem__ call with shuffle() called from another thread at any moment.
InitRace == Constructed({1})

NextRace == NextWorkers \/ Shuffle

SpecRace == InitRace /\ [][NextRace]_vars

-----------------------------------------------------------------------------
(* Properties.                                                             *)

\* How many of the names sort before name in Python's string order.
RankIn(names, name) == Cardinality({n \in names : LexLess(n, name)})

\* The last call was a train-mode construction that found no class map file.
DerivingInit ==
    /\ ret.op = "init"
    /\ ret.train
    /\ ~ret.existed

\* C1: a train-mode construction without priority classes that finds no class map
\* file produces a class map whose keys are exactly the discovered class names,
\* whose labels are exactly 0..N-1, each name labelled with its rank in
\* lexicographic order; when the construction succeeds the instance holds it.
C1_DerivedLabelsAreSortedRanks ==
    (DerivingInit /\ ret.priority_classes = <<>>) =>
        LET class_map == ret.class_map
            N == Cardinality(ret.names)
        IN  /\ Len(class_map) = N
            /\ DictKeys(class_map) = ret.names
            /\ {class_map[i][2] : i \in 1..Len(class_map)} = 0..(N - 1)
            /\ \A i \in 1..Len(class_map) :
                  class_map[i][2] = RankIn(ret.names, class_map[i][1])
            /\ ret.err \in {"none", "FileNotFoundError"}
            /\ ret.err = "none" => dataset.class_map = class_map

\* C1 witness: a derivation over three class names, one a prefix of another.
C1_Witness ==
    /\ DerivingInit /\ ret.priority_classes = <<>> /\ ret.err = "none"
    /\ ret.backend = "folder" /\ ret.src = s_root
    /\ dataset.class_map = << <<s_ca, 0>>, <<s_cat, 1>>, <<s_dog, 2>> >>

\* The class directories of the content, and the root its layout hangs from in
\* the dataset's store.
ContentClasses == {content[i][1] : i \in 1..Len(content)}

ConventionalStore(self) ==
    \/ self.backend = "folder" /\ self.src = s_root
    \/ self.backend = "tar" /\ self.src = s_data_tar

TopOf(self) == IF self.backend = "folder" THEN s_root ELSE s_data

RecordName(self, image_info) ==
    IF self.backend = "folder" THEN image_info ELSE image_info.name

\* C2: over the same content laid out as <top>/<class_name>/<image file>, a
\* train-mode derivation of either backend gives the one class map that labels
\* each class directory with its alphabetical rank, the records are the content's
\* images, and getItem returns for each image the rank of its class directory.
C2_BackendsAgreeOnConventionalLayout ==
    (/\ dataset # NoDataset
     /\ ConventionalStore(dataset)
     /\ dataset.derived
     /\ dataset.priority_classes = <<>>) =>
        /\ Len(dataset.class_map) = Cardinality(ContentClasses)
        /\ \A i \in 1..Len(dataset.class_map) :
              /\ dataset.class_map[i][1] \in ContentClasses
              /\ dataset.class_map[i][2] = i - 1
              /\ RankIn(ContentClasses, dataset.class_map[i][1]) = i - 1
        /\ {RecordName(dataset, x) : x \in Range(dataset.image_infos)}
              = {Join(Join(TopOf(dataset), content[i][1]), content[i][2]) :
                    i \in 1..Len(content)}
        /\ ret.op = "getitem" =>
              /\ ret.err = "none"
              /\ \A i \in 1..Len(content) :
                    RecordName(dataset, ret.image_info)
                        = Join(Join(TopOf(dataset), content[i][1]), content[i][2])
                    => ret.label = RankIn(ContentClasses, content[i][1])

\* C2 witness: the archive backend returns label 1 for the image of dog, second
\* of the two classes cat and dog.
C2_Witness ==
    /\ dataset # NoDataset /\ dataset.backend = "tar" /\ dataset.src = s_data_tar
    /\ dataset.derived /\ dataset.priority_classes = <<>>
    /\ dataset.class_map = << <<s_cat, 0>>, <<s_dog, 1>> >>
    /\ ret.op = "getitem" /\ ret.label = 1
    /\ ret.image_info.name = Join(Join(s_data, s_dog), s_b_PNG)

\* C3: a construction with train = false that finds no file at the effective class
\* map path raises FileNotFoundError; it derives no class map, creates no file and
\* no directory, and leaves no instance.
C3_EvalWithoutMapFails ==
    [][(ret'.op = "init" /\ ~ret'.train /\ ~ret'.existed) =>
          /\ ret'.err = "FileNotFoundError"
          /\ ret'.class_map = <<>>
          /\ fs' = fs
          /\ dirs' = dirs
          /\ persisted' = persisted
          /\ dataset' = NoDataset]_vars

\* C3 witness: an evaluation-mode archive construction has failed for want of a map.
C3_Witness ==
    /\ ret.op = "init" /\ ~ret.train /\ ~ret.existed
    /\ ret.backend = "tar"
    /\ ret.err = "FileNotFoundError"
    /\ dataset = NoDataset

\* C4: a train-mode construction that has to derive the map, given a priority class
\* that is not among the discovered class names, raises KeyError; nothing is
\* persisted: the effective class map path still does not exist.
C4_MissingPriorityClassFailsBeforePersist ==
    (/\ DerivingInit
     /\ \E i \in 1..Len(ret.priority_classes) :
            ret.priority_classes[i] \notin ret.names) =>
        /\ ret.err = "KeyError"
        /\ ret.class_map_path \notin DOMAIN fs
        /\ ret.class_map_path \notin DOMAIN persisted
        /\ dataset = NoDataset

\* C4 witness: the second priority class is missing (the first is discovered).
C4_Witness ==
    /\ DerivingInit
    /\ ret.priority_classes = <<s_dog, s_ca>>
    /\ s_dog \in ret.names /\ s_ca \notin ret.names
    /\ ret.err = "KeyError"

\* The second component of an archive member's path, when it has one.
SlashesOf(s) == {i \in 1..Len(s) : s[i] = SLASH}

Least(S) == CHOOSE x \in S : \A y \in S : x <= y

SecondComponent(s) ==
    LET first == Least(SlashesOf(s))
        later == {i \in SlashesOf(s) : i > first}
        stop  == IF later = {} THEN Len(s) + 1 ELSE Least(later)
    IN  SubSeq(s, first + 1, stop - 1)

\* The class name the backend's convention derives for the record getItem fetched:
\* the immediate parent directory's name (folder), the second path component
\* (archive).
DerivedClassName(self, image_info) ==
    IF self.backend = "folder"
    THEN Basename(Dirname(image_info))
    ELSE SecondComponent(image_info.name)

HasDerivedClassName(self, image_info) ==
    SlashesOf(RecordName(self, image_info)) # {}

\* C5: getItem on a record whose derived class name is no key of the dataset's
\* class map raises nothing and returns label 0.
C5_UnknownClassYieldsZero ==
    (/\ ret.op = "getitem"
     /\ HasDerivedClassName(dataset, ret.image_info)
     /\ DerivedClassName(dataset, ret.image_info) \notin DictKeys(dataset.class_map)) =>
        /\ ret.err = "none"
        /\ ret.label = 0

\* C5 witness: each backend has returned label 0 for a record of a class its map
\* lacks -- here the folder backend, for an image directly under the root.
C5_Witness ==
    /\ ret.op = "getitem"
    /\ dataset.backend = "folder"
    /\ ret.image_info = Join(s_alt, s_r_png)
    /\ s_alt \notin DictKeys(dataset.class_map)
    /\ dataset.class_map # <<>>
    /\ ret.err = "none" /\ ret.label = 0

\* C6: a train-mode derivation with priority classes that are all among the
\* discovered class names gives a class map under which each priority class has a
\* label of its own and every other discovered class has label 0 (the label
\* get_label_from_filename looks up, with its default).
C6_PriorityClassesDistinctRestZero ==
    (/\ DerivingInit
     /\ ret.priority_classes # <<>>
     /\ Range(ret.priority_classes) \subseteq ret.names
     /\ ret.err = "none") =>
        LET class_map == dataset.class_map
            priority  == Range(ret.priority_classes)
        IN  /\ class_map = ret.class_map
            /\ priority \subseteq DictKeys(class_map)
            /\ \A a, b \in priority :
                  a # b => DictGet(class_map, a, 0) # DictGet(class_map, b, 0)
            /\ \A c \in ret.names \ priority : DictGet(class_map, c, 0) = 0

\* C6 witness: two priority classes, and a third discovered class that sorts
\* between them.
C6_Witness ==
    /\ DerivingInit /\ ret.err = "none"
    /\ ret.priority_classes = <<s_dog, s_ca>>
    /\ ret.names = {s_ca, s_cat, s_dog}
    /\ DictGet(dataset.class_map, s_dog, 0) # DictGet(dataset.class_map, s_ca, 0)
    /\ DictGet(dataset.class_map, s_cat, 0) = 0

\* C7: a class map file, once written, is never changed, and every construction
\* that finds a file at its effective path succeeds, derives nothing and holds
\* the class map the writing construction held, whatever class names its own
\* store has.
C7_ExistingMapIsLoadedUnchanged ==
    [][/\ \A p \in DOMAIN fs : p \in DOMAIN fs' /\ fs'[p] = fs[p]
       /\ (ret'.op = "init" /\ ret'.existed) =>
             /\ ret'.err = "none"
             /\ ~dataset'.derived
             /\ dataset'.class_map = persisted[ret'.class_map_path]
             /\ persisted' = persisted
             /\ fs' = fs]_vars

\* C7 witness: a train-mode construction has loaded a class map whose keys are not
\* the class names of its own store.
C7_Witness ==
    /\ ret.op = "init" /\ ret.existed /\ ret.train /\ ret.err = "none"
    /\ ~dataset.derived
    /\ dataset.class_map = persisted[dataset.class_map_path]
    /\ DictKeys(dataset.class_map) # ret.names

\* C8: a construction with priority classes checks, loads and persists its class
\* map at another path than the base path, in the same directory, so it never
\* holds a class map read from or written to the base path's file.
C8_PriorityPathDiffersFromBase ==
    (ret.op = "init" /\ ret.priority_classes # <<>> /\ ret.err = "none") =>
        /\ dataset.class_map_path # dataset.base_path
        /\ Dirname(dataset.class_map_path) = Dirname(dataset.base_path)

\* The multiset of a sequence's elements: how often x occurs in s.
Occurrences(s, x) == Cardinality({i \in 1..Len(s) : s[i] = x})

\* C9: whatever shuffle() and getItem calls a dataset has seen, its record sequence
\* is a permutation of the sequence enumerated at construction: the same length,
\* every record as often as before.
C9_ShufflePreservesRecords ==
    dataset # NoDataset =>
        /\ Length(dataset) = Len(dataset.enumerated)
        /\ \A x \in Range(dataset.enumerated) \cup Range(dataset.image_infos) :
              Occurrences(dataset.image_infos, x) = Occurrences(dataset.enumerated, x)

\* C9 witness: getItem on a three-record dataset whose order a shuffle has changed.
C9_Witness ==
    /\ dataset # NoDataset
    /\ ret.op = "getitem"
    /\ Length(dataset) = 3
    /\ dataset.image_infos # dataset.enumerated
    /\ dataset.image_infos[1] = dataset.enumerated[3]

\* The eval chain and the train chain, as sets of transforms applied after decoding.
EvalChain == <<"ToImage", "Resize224", "ToDtype", "Normalize">>

TrainChain ==
    <<"ToImage", "RandomHorizontalFlip", "Resize224", "ToDtype", "AugMix", "Normalize">>

RotationOf(key) ==
    CASE key = "0" -> "RandomRotation0"
      [] key = "90" -> "RandomRotation90"
      [] key = "180" -> "RandomRotation180"
      [] key = "270" -> "RandomRotation270"

\* C10: with TTA getItem returns, whatever train is, a mapping with exactly the
\* keys "0", "90", "180", "270", each the record's image rotated by its key and
\* put through the eval chain; without TTA it returns the image put through the
\* train chain if train is set and through the eval chain otherwise.
C10_TTATakesPrecedence ==
    (ret.op = "getitem" /\ ret.err = "none") =>
        IF dataset.TTA
        THEN /\ DOMAIN ret.image = {"0", "90", "180", "270"}
             /\ \A rot \in DOMAIN ret.image :
                   /\ ret.image[rot].source = ret.image_info
                   /\ ret.image[rot].ops
                        = <<"ConvertRGB", RotationOf(rot)>> \o EvalChain
        ELSE /\ DOMAIN ret.image = {"source", "ops"}
             /\ ret.image.source = ret.image_info
             /\ ret.image.ops
                  = <<"ConvertRGB">> \o (IF dataset.train THEN TrainChain ELSE EvalChain)

\* C10 witness: a TTA access on a dataset constructed with train set.
C10_Witness ==
    /\ ret.op = "getitem" /\ ret.err = "none"
    /\ dataset.TTA /\ dataset.train
    /\ DOMAIN ret.image = {"0", "90", "180", "270"}

\* The calls that hold an archive handle: between tarfile.open and the end of the
\* with block.
HoldingHandle == {w \in DOMAIN calls : calls[w].pc \in {"fetch", "extract", "decode", "label"}}

\* C11: with workers calling getItem at once and no shuffle() running, the record
\* sequence and the class map stay as the construction left them; every call of the
\* archive backend that is inside its with block holds an open handle that no other
\* call holds, positioned nowhere but at the call's own record, and no handle stays
\* open once its call is over; and every finished call has returned (or raised)
\* what getItem returns for its index when it runs alone.
C11_ConcurrentCallsAreIndependent ==
    /\ dataset.image_infos = dataset.enumerated
    /\ dataset.class_map = persisted[dataset.class_map_path]
    /\ dataset.backend = "tar" =>
          /\ DOMAIN handles = {calls[w].tar : w \in HoldingHandle}
          /\ \A w, v \in HoldingHandle : calls[w].tar = calls[v].tar => w = v
          /\ \A w \in HoldingHandle :
                handles[calls[w].tar] \in {NoMember, calls[w].image_info}
    /\ dataset.backend = "folder" => handles = <<>>
    /\ \A w \in DOMAIN calls :
          calls[w].pc = "done" =>
              LET alone == GetItemResult(dataset, calls[w].idx)
              IN  /\ calls[w].err = alone.err
                  /\ calls[w].label = alone.label
                  /\ calls[w].image_info = alone.image_info

\* C11 witness: two calls on an archive dataset overlapped; one has returned label
\* 1 for its index while the other, on another index, is still inside its with
\* block with its own handle at its own record.
C11_Witness ==
    /\ dataset.backend = "tar"
    /\ \E w, v \in DOMAIN calls :
          /\ calls[w].pc = "done" /\ calls[w].err = "none" /\ calls[w].label = 1
          /\ calls[v].pc = "decode" /\ calls[v].idx # calls[w].idx
          /\ handles[calls[v].tar] = calls[v].image_info

\* The record an image was decoded from (with TTA, each rotation's image).
SourcesOf(image) ==
    IF "source" \in DOMAIN image THEN {image.source}
    ELSE {image[rot].source : rot \in DOMAIN image}

\* C12: whenever shuffle() runs during a getItem call, the pair the call returns is
\* the image decoded from the one record the call fetched and the label the class
\* map gives the class name derived from that same record (0 when the map has no
\* such key), and that record is a record of the dataset.
C12_ImageAndLabelFromOneRecord ==
    \A w \in DOMAIN calls :
        (calls[w].pc = "done" /\ calls[w].err = "none") =>
            /\ SourcesOf(calls[w].image) = {calls[w].image_info}
            /\ calls[w].image_info \in Range(dataset.enumerated)
            /\ \A image_info \in SourcesOf(calls[w].image) :
                  calls[w].label =
                      DictGet(dataset.class_map, DerivedClassName(dataset, image_info), 0)

\* C12 witness: a call returned an image and a label after a shuffle, between its
\* fetch and its label, had put a record with another label at its index.
C12_Witness ==
    \E w \in DOMAIN calls :
        /\ calls[w].pc = "done" /\ calls[w].err = "none"
        /\ calls[w].current # calls[w].image_info
        /\ GetLabelFromFilename(dataset, calls[w].current).label # calls[w].label

====
